---- MODULE Spec2Model ----
(***************************************************************************)
(* Employment status calculator of the housemaid record manager            *)
(* (src/src/utils/employmentCalculations.ts).                              *)
(*                                                                         *)
(* Time is counted in hours: every instant the code handles in             *)
(* milliseconds is a whole number of hours here, and the divisor           *)
(* 1000 * 60 * 60 * 24 of the code is HoursPerDay.  Calendar dates are day *)
(* numbers counted from 2024-01-01 (day 0); a date-only string             *)
(* "YYYY-MM-DD", as an <input type="date"> delivers it, is parsed by       *)
(* new Date(s) as midnight UTC of that day.                                *)
(***************************************************************************)
EXTENDS Integers, Sequences, FiniteSets, TLC

\* ---------------------------------------------------------------- bounds
\* number of 6-hour steps the wall clock may advance
MaxTicks == 6

\* number of calls of calculateEmploymentStatus in one behaviour
MaxCalls == 2

\* largest day count handed to the presentation helpers
MaxDays == 800

\* largest number of lines a wrapped table value takes in the PDF
MaxLines == 2

\* largest number of housemaids handed to the report generator
MaxHousemaids == 2

\* number of HousemaidForm handler calls in one behaviour
MaxEvents == 3

\* ------------------------------------------------------------- constants
HoursPerDay == 24

PermanentThreshold == 90

\* --------------------------------------------------- JavaScript numbers
Num(n) == [t |-> "number", v |-> n]

NaN == [t |-> "nan", v |-> 0]

Undefined == [t |-> "undefined", v |-> 0]

IsNum(x) == x.t = "number"

\* a - b
Sub(a, b) == IF IsNum(a) /\ IsNum(b) THEN Num(a.v - b.v) ELSE NaN

\* Math.floor(x / (1000 * 60 * 60 * 24))
FloorDays(x) == IF IsNum(x) THEN Num(x.v \div HoursPerDay) ELSE NaN

\* Math.max(a, b): NaN when either argument is NaN
MathMax(a, b) ==
  IF IsNum(a) /\ IsNum(b) THEN (IF a.v >= b.v THEN a ELSE b) ELSE NaN

\* a >= n: false when a is NaN
Ge(a, n) == IsNum(a) /\ a.v >= n

\* x || 0: undefined, NaN and 0 are falsy
OrZero(x) == IF IsNum(x) /\ x.v # 0 THEN x ELSE Num(0)

\* ------------------------------------------------------- date strings
IsoDate(d) == [k |-> "iso", day |-> d]

EmptyString == [k |-> "empty", day |-> 0]

Malformed == [k |-> "malformed", day |-> 0]

NoString == [k |-> "undefined", day |-> 0]

\* !s for a string argument: "" and undefined are falsy
Falsy(s) == s.k \in {"empty", "undefined"}

\* new Date(s).getTime()
DateGetTime(s) == IF s.k = "iso" THEN Num(s.day * HoursPerDay) ELSE NaN

\* ------------------------------------------------------ input domains
DateDays == {0, 10, 11, 45, 100, 101, 102}

StartDates == {IsoDate(d) : d \in DateDays} \cup {EmptyString, NoString, Malformed}

EffectiveDates == {IsoDate(d) : d \in DateDays} \cup {EmptyString, NoString, Malformed}

Statuses == {"undefined", "probationary", "permanent", "resigned", "terminated"}

\* offsets of local time from UTC, in hours
TimeZones == {-6, 0, 8}

\* the wall clock when the record is opened: 2024-04-10T00:00Z
FirstNow == 100 * HoursPerDay

\* ------------------------------------------- calculateEmploymentStatus
ZeroState ==
  [daysWorked |-> Num(0),
   shouldBePermanent |-> FALSE,
   daysUntilPermanent |-> Num(90),
   isEligibleForPermanent |-> FALSE,
   actualDaysWorked |-> Undefined,
   isResignedOrTerminated |-> FALSE]

IsResignedOrTerminatedMutant(st) == st = "resigned"

IsResignedOrTerminated(st) == st = "resigned" \/ st = "terminated"

UsesEffectiveDateMutant(st, eff) == st = "resigned" /\ ~Falsy(eff)

UsesEffectiveDateAnyStatus(st, eff) == ~Falsy(eff)

\* the condition of the branch that takes the effective date as end date
UsesEffectiveDate(st, eff) == IsResignedOrTerminated(st) /\ ~Falsy(eff)

EndDateMutant(st, eff, clock) == Num(clock)

\* endDate.getTime()
EndDate(st, eff, clock) ==
  IF UsesEffectiveDate(st, eff) THEN DateGetTime(eff) ELSE Num(clock)

\* the local actualDaysWorked after the branch
ActualDaysLocal(start, st, eff) ==
  IF UsesEffectiveDate(st, eff)
  THEN FloorDays(Sub(DateGetTime(eff), DateGetTime(start)))
  ELSE Undefined

ClampDaysMutant(d) == d

\* Math.max(0, daysWorked)
ClampDays(d) == MathMax(Num(0), d)

ShouldBePermanentMutant(d) == Ge(d, PermanentThreshold + 1)

ShouldBePermanent(d) == Ge(d, PermanentThreshold)

IsEligibleForPermanent(d) == Ge(d, PermanentThreshold)

DaysUntilPermanent(d) == MathMax(Num(0), Sub(Num(PermanentThreshold), d))

ActualDaysFieldMutant(isRT, adw) == MathMax(Num(0), OrZero(adw))

ActualDaysField(isRT, adw) ==
  IF isRT THEN MathMax(Num(0), OrZero(adw)) ELSE Undefined

NoStartDateMutant(start) == start.k = "undefined"

\* !startDate
NoStartDate(start) == Falsy(start)

calculateEmploymentStatus(start, st, eff, clock) ==
  IF NoStartDate(start) THEN ZeroState
  ELSE
    LET isRT == IsResignedOrTerminated(st)
        diffTime == Sub(EndDate(st, eff, clock), DateGetTime(start))
        daysWorked == FloorDays(diffTime)
    IN  [daysWorked |-> ClampDays(daysWorked),
         shouldBePermanent |-> ShouldBePermanent(daysWorked),
         daysUntilPermanent |-> DaysUntilPermanent(daysWorked),
         isEligibleForPermanent |-> IsEligibleForPermanent(daysWorked),
         actualDaysWorked |-> ActualDaysField(isRT, ActualDaysLocal(start, st, eff)),
         isResignedOrTerminated |-> isRT]

\* ------------------------------------------------ getDisplayDaysWorked
getDisplayDaysWorked(calculation) ==
  IF calculation.isResignedOrTerminated /\ calculation.actualDaysWorked # Undefined
  THEN calculation.actualDaysWorked
  ELSE calculation.daysWorked

\* -------------------------------------------- getEmploymentStatusColor
getEmploymentStatusColor(st, d) ==
  IF st = "permanent" THEN "bg-green-100 text-green-800 border-green-200"
  ELSE IF st = "resigned" THEN "bg-blue-100 text-blue-800 border-blue-200"
  ELSE IF st = "terminated" THEN "bg-red-100 text-red-800 border-red-200"
  ELSE IF d >= 90 THEN "bg-blue-100 text-blue-800 border-blue-200"
  ELSE IF d >= 60 THEN "bg-yellow-100 text-yellow-800 border-yellow-200"
  ELSE "bg-orange-100 text-orange-800 border-orange-200"

\* --------------------------------------------- getEmploymentStatusText
getEmploymentStatusTextMutant(st, d) ==
  IF st = "permanent" THEN "Permanent Employee"
  ELSE IF d >= 90 THEN "Eligible for Permanent"
  ELSE IF st = "resigned" THEN "Resigned"
  ELSE IF st = "terminated" THEN "Terminated"
  ELSE "Probationary"

getEmploymentStatusText(st, d) ==
  IF st = "permanent" THEN "Permanent Employee"
  ELSE IF st = "resigned" THEN "Resigned"
  ELSE IF st = "terminated" THEN "Terminated"
  ELSE IF d >= 90 THEN "Eligible for Permanent"
  ELSE "Probationary"

\* ---------------------------------------------------- formatDaysWorked
\* `${n} ${n === 1 ? one : many}`
Counted(n, one, many) == ToString(n) \o " " \o (IF n = 1 THEN one ELSE many)

formatDaysWorkedMutant(d) ==
  IF d = 0 THEN "0 days"
  ELSE IF d = 1 THEN "1 day"
  ELSE IF d >= 30 THEN
    LET months == d \div 30
        remainingDays == d % 30
    IN  IF remainingDays = 0 THEN Counted(months, "month", "months")
        ELSE Counted(months, "month", "months") \o ", " \o Counted(remainingDays, "day", "days")
  ELSE ToString(d) \o " days"

formatDaysWorked(d) ==
  IF d = 0 THEN "0 days"
  ELSE IF d = 1 THEN "1 day"
  ELSE IF d >= 365 THEN
    LET years == d \div 365
        remainingDays == d % 365
    IN  IF remainingDays = 0 THEN Counted(years, "year", "years")
        ELSE Counted(years, "year", "years") \o ", " \o Counted(remainingDays, "day", "days")
  ELSE IF d >= 30 THEN
    LET months == d \div 30
        remainingDays == d % 30
    IN  IF remainingDays = 0 THEN Counted(months, "month", "months")
        ELSE Counted(months, "month", "months") \o ", " \o Counted(remainingDays, "day", "days")
  ELSE ToString(d) \o " days"

\* the status values of the presentation helpers' parameter type
HelperStatuses == {"probationary", "permanent", "resigned", "terminated"}

\* ----------------------------------------------------------------- state
VARIABLES
  now,            \* the wall clock, hours
  tz,             \* offset of the host's local time from UTC, hours
  startDate,      \* the arguments of the call
  status,
  effectiveDate,
  calls,          \* number of calls made
  result,         \* the record the last call returned
  calledAt,       \* the wall clock at the last call
  prev,           \* the record the call before the last returned
  prevAt,         \* the wall clock at the call before the last
  display,        \* getDisplayDaysWorked of the last record
  days,           \* the daysWorked argument of the presentation helpers
  label,          \* the last getEmploymentStatusText result
  color,          \* the last getEmploymentStatusColor result
  formatted,      \* the last formatDaysWorked result
  pdfPc,          \* position in generatePDFReport
  yPosition,      \* generatePDFReport: yPosition / addInfoTable: currentY
  pageNumber,     \* generatePDFReport: pageNumber
  sec,            \* the section being laid out, 1..9; 10 is the verification block
  row,            \* the next table row of the section
  headerPage,     \* the page number last passed to addPageHeader
  footerPage,     \* the page number last passed to addPageFooter
  hasLong,        \* some value of the record is longer than 40 characters
  housemaids,     \* ReportGenerator: number of records in the housemaids prop
  selectedFormat, \* ReportGenerator state
  selectedType,
  selectedHousemaid,
  isGenerating,
  genPc,          \* position in handleGenerate
  run,            \* the state values the running handleGenerate closed over
  output,         \* the file the last handleGenerate run wrote
  outputRows,     \* the data rows of that file's summary sheet
  alertMsg,       \* the alert the last handleGenerate run showed
  isReadOnly,     \* HousemaidForm: the user lacks the manager permission
  housemaid,      \* HousemaidForm: the housemaid prop
  formData,       \* HousemaidForm state, every queued update applied
  rendered,       \* the formData of the last render, which the handlers close over
  saved,          \* the record passed to onSave
  events,         \* number of handler calls made
  autoEnd         \* startDate or contractPeriodYears was edited after the last
                  \* manual edit of endDate

calcVars == <<now, tz, startDate, effectiveDate, calls, result, calledAt, prev, prevAt, display>>

helperVars == <<days, label, color, formatted>>

pdfVars == <<pdfPc, yPosition, pageNumber, sec, row, headerPage, footerPage, hasLong>>

genVars == <<housemaids, selectedFormat, selectedType, selectedHousemaid, isGenerating,
             genPc, run, output, outputRows, alertMsg>>

formVars == <<isReadOnly, housemaid, formData, rendered, saved, events, autoEnd>>

vars == <<calcVars, status, helperVars, pdfVars, genVars, formVars>>

args == <<tz, startDate, status, effectiveDate>>

NoResult ==
  [daysWorked |-> Undefined,
   shouldBePermanent |-> FALSE,
   daysUntilPermanent |-> Undefined,
   isEligibleForPermanent |-> FALSE,
   actualDaysWorked |-> Undefined,
   isResignedOrTerminated |-> FALSE]

\* the calculator is not in use
CalcIdle ==
  /\ now = FirstNow
  /\ tz = 0
  /\ startDate = NoString
  /\ effectiveDate = NoString
  /\ calls = 0
  /\ result = NoResult
  /\ calledAt = -1
  /\ prev = NoResult
  /\ prevAt = -1
  /\ display = Undefined

\* the presentation helpers are not in use
HelpersIdle ==
  /\ days = 0
  /\ label = ""
  /\ color = ""
  /\ formatted = ""

\* no PDF is being generated
PdfIdle ==
  /\ pdfPc = "idle"
  /\ yPosition = 0
  /\ pageNumber = 0
  /\ sec = 0
  /\ row = 0
  /\ headerPage = 0
  /\ footerPage = 0
  /\ hasLong = FALSE

NoRun == [format |-> "", type |-> "", housemaid |-> 0]

\* the report generator is not mounted
GenIdle ==
  /\ housemaids = 0
  /\ selectedFormat = "pdf"
  /\ selectedType = "individual"
  /\ selectedHousemaid = 0
  /\ isGenerating = FALSE
  /\ genPc = "idle"
  /\ run = NoRun
  /\ output = "none"
  /\ outputRows = 0
  /\ alertMsg = ""

\* ---------------------------------------------- HousemaidForm values
\* the value of a date input: a calendar date, or the empty string
Ymd(y, m, d) == [y |-> y, m |-> m, d |-> d]

EmptyDate == Ymd(0, 0, 0)

NoFile == "undefined"

\* useState initial value of formData
DefaultFormData ==
  [housemaidNumber |-> "",
   personalInfo |-> [name |-> ""],
   employment |-> [contractPeriodYears |-> 2, startDate |-> EmptyDate, endDate |-> EmptyDate],
   profilePhoto |-> [file |-> NoFile],
   cv |-> [file |-> NoFile],
   poloClearance |-> [file |-> NoFile, completionDate |-> EmptyDate],
   airTicket |-> [file |-> NoFile, ticketNumber |-> "", bookingReference |-> ""]]

NoHousemaid == [id |-> "", createdAt |-> 0, data |-> DefaultFormData]

\* a stored record opened for editing
ExistingHousemaid ==
  [id |-> "housemaid-1200",
   createdAt |-> 1200,
   data |-> [housemaidNumber |-> "HM-001",
             personalInfo |-> [name |-> "Ana"],
             employment |-> [contractPeriodYears |-> 2, startDate |-> Ymd(2023, 5, 10),
                             endDate |-> Ymd(2025, 5, 10)],
             profilePhoto |-> [file |-> NoFile],
             cv |-> [file |-> "cv.pdf"],
             poloClearance |-> [file |-> "polo.pdf", completionDate |-> Ymd(2023, 4, 1)],
             airTicket |-> [file |-> "ticket.pdf", ticketNumber |-> "T-1",
                            bookingReference |-> "B-1"]]]

NotSaved ==
  [id |-> "", createdAt |-> 0, updatedAt |-> 0, data |-> DefaultFormData]

\* the form is not mounted
FormIdle ==
  /\ isReadOnly = FALSE
  /\ housemaid = NoHousemaid
  /\ formData = DefaultFormData
  /\ rendered = DefaultFormData
  /\ saved = NotSaved
  /\ events = 0
  /\ autoEnd = FALSE

Init ==
  /\ now = FirstNow
  /\ tz \in TimeZones
  /\ startDate \in StartDates
  /\ status \in Statuses
  /\ effectiveDate \in EffectiveDates
  /\ calls = 0
  /\ result = NoResult
  /\ calledAt = -1
  /\ prev = NoResult
  /\ prevAt = -1
  /\ display = Undefined
  /\ HelpersIdle
  /\ PdfIdle
  /\ GenIdle
  /\ FormIdle

\* the wall clock advances
Tick ==
  /\ now < FirstNow + 6 * MaxTicks
  /\ now' = now + 6
  /\ UNCHANGED <<args, calls, result, calledAt, prev, prevAt, display, helperVars, pdfVars, genVars, formVars>>

\* a caller evaluates calculateEmploymentStatus(startDate, status, effectiveDate)
\* and getDisplayDaysWorked of the record
Call ==
  /\ calls < MaxCalls
  /\ calls' = calls + 1
  /\ result' = calculateEmploymentStatus(startDate, status, effectiveDate, now)
  /\ calledAt' = now
  /\ prev' = result
  /\ prevAt' = calledAt
  /\ display' = getDisplayDaysWorked(result')
  /\ UNCHANGED <<now, args, helperVars, pdfVars, genVars, formVars>>

Next == Tick \/ Call

Spec == Init /\ [][Next]_vars

Called == calls > 0

\* ------------------------------------------ the presentation helpers
HelpersInit ==
  /\ CalcIdle
  /\ status \in HelperStatuses
  /\ days \in 0 .. MaxDays
  /\ label = ""
  /\ color = ""
  /\ formatted = ""
  /\ PdfIdle
  /\ GenIdle
  /\ FormIdle

ShowText ==
  /\ label' = getEmploymentStatusText(status, days)
  /\ UNCHANGED <<calcVars, status, days, color, formatted, pdfVars, genVars, formVars>>

ShowColor ==
  /\ color' = getEmploymentStatusColor(status, days)
  /\ UNCHANGED <<calcVars, status, days, label, formatted, pdfVars, genVars, formVars>>

ShowDuration ==
  /\ formatted' = formatDaysWorked(days)
  /\ UNCHANGED <<calcVars, status, days, label, color, pdfVars, genVars, formVars>>

HelpersNext == ShowText \/ ShowColor \/ ShowDuration

SpecHelpers == HelpersInit /\ [][HelpersNext]_vars

TypeOK ==
  /\ now \in FirstNow .. (FirstNow + 6 * MaxTicks)
  /\ calls \in 0 .. MaxCalls
  /\ calledAt \in {-1} \cup (FirstNow .. now)

\* ---------------------------------------------------- generatePDFReport
\* Lengths are millimetres.  pdf.internal.pageSize.getHeight() of
\* new jsPDF('p', 'mm', 'a4')
PageHeight == 297

\* const totalPages = 2
TotalPages == 2

\* the rows of the nine tables, in order; TRUE marks a value that is free
\* text of the record, FALSE a value that is a fixed word or a formatted date
SectionRows ==
  << <<TRUE, TRUE, TRUE, TRUE, TRUE, TRUE, TRUE, TRUE>>,
     <<TRUE, TRUE, TRUE>>,
     <<FALSE, FALSE, FALSE>>,
     <<TRUE, TRUE>>,
     <<TRUE, FALSE, FALSE, FALSE, FALSE, TRUE, FALSE>>,
     <<FALSE, TRUE, TRUE, TRUE, TRUE, TRUE>>,
     <<TRUE, TRUE, TRUE, TRUE, TRUE, TRUE>>,
     <<TRUE, TRUE, TRUE, TRUE, TRUE, TRUE>>,
     <<FALSE, FALSE, FALSE, TRUE, TRUE>> >>

\* the requiredSpace of the checkPageBreak before each section; section 1
\* has none, entry 10 is the one before the verification block
RequiredSpace == <<0, 30, 25, 20, 35, 30, 35, 35, 30, 40>>

\* addSectionHeader: return yPos + 12
addSectionHeader(yPos) == yPos + 12

\* addInfoTable, one row of n lines: a value of at most 40 characters takes
\* 6, a longer one (lines.length * 3) + 3
RowHeight(long, n) == IF long THEN (n * 3) + 3 ELSE 6

\* checkPageBreak
checkPageBreak(currentY, requiredSpace, page) ==
  IF currentY + requiredSpace > PageHeight - 40
  THEN [newY |-> 55, newPageNumber |-> page + 1, broke |-> TRUE]
  ELSE [newY |-> currentY, newPageNumber |-> page, broke |-> FALSE]

PdfInit ==
  /\ CalcIdle
  /\ status = "undefined"
  /\ HelpersIdle
  /\ PdfIdle
  /\ GenIdle
  /\ FormIdle

\* new jsPDF, header of page 1, document title
PdfBegin ==
  /\ pdfPc = "idle"
  /\ pageNumber' = 1
  /\ headerPage' = 1
  /\ yPosition' = 55 + 15
  /\ sec' = 1
  /\ row' = 1
  /\ pdfPc' = "header"
  /\ UNCHANGED <<footerPage, hasLong, calcVars, status, helperVars, genVars, formVars>>

\* checkPageBreak before sections 2..9 and before the verification block
PdfPageBreak ==
  /\ pdfPc = "break"
  /\ LET pb == checkPageBreak(yPosition, RequiredSpace[sec], pageNumber)
     IN  /\ yPosition' = pb.newY
         /\ pageNumber' = pb.newPageNumber
         /\ footerPage' = IF pb.broke THEN pageNumber ELSE footerPage
         /\ headerPage' = IF pb.broke THEN pb.newPageNumber ELSE headerPage
  /\ pdfPc' = IF sec = 10 THEN "verify" ELSE "header"
  /\ UNCHANGED <<sec, row, hasLong, calcVars, status, helperVars, genVars, formVars>>

PdfSectionHeader ==
  /\ pdfPc = "header"
  /\ yPosition' = addSectionHeader(yPosition)
  /\ row' = 1
  /\ pdfPc' = "rows"
  /\ UNCHANGED <<pageNumber, sec, headerPage, footerPage, hasLong, calcVars, status,
                 helperVars, genVars, formVars>>

\* addInfoTable draws one row at yPosition
PdfRow ==
  /\ pdfPc = "rows"
  /\ row <= Len(SectionRows[sec])
  /\ \E long \in (IF SectionRows[sec][row] THEN BOOLEAN ELSE {FALSE}), n \in 1 .. MaxLines :
        /\ yPosition' = yPosition + RowHeight(long, n)
        /\ hasLong' = (hasLong \/ long)
  /\ row' = row + 1
  /\ UNCHANGED <<pdfPc, pageNumber, sec, headerPage, footerPage, calcVars, status,
                 helperVars, genVars, formVars>>

\* addInfoTable: return currentY + 5
PdfTableEnd ==
  /\ pdfPc = "rows"
  /\ row > Len(SectionRows[sec])
  /\ yPosition' = yPosition + 5
  /\ sec' = sec + 1
  /\ pdfPc' = "break"
  /\ UNCHANGED <<pageNumber, row, headerPage, footerPage, hasLong, calcVars, status,
                 helperVars, genVars, formVars>>

\* the verification block when yPosition < 220, the footer of the last page, save
PdfFinish ==
  /\ pdfPc = "verify"
  /\ yPosition' = IF yPosition < 220 THEN yPosition + 8 + 6 + 8 + 4 + 4 + 15 + 5 ELSE yPosition
  /\ footerPage' = pageNumber
  /\ pdfPc' = "done"
  /\ UNCHANGED <<pageNumber, sec, row, headerPage, hasLong, calcVars, status,
                 helperVars, genVars, formVars>>

PdfNext ==
  PdfBegin \/ PdfPageBreak \/ PdfSectionHeader \/ PdfRow \/ PdfTableEnd \/ PdfFinish

SpecPdf == PdfInit /\ [][PdfNext]_vars

\* ------------------------------------------------------ ReportGenerator
ReportFormats == {"pdf", "excel", "word"}

\* the report types the dialog offers
ReportTypes == {"individual", "summary"}

GenInit ==
  /\ CalcIdle
  /\ status = "undefined"
  /\ HelpersIdle
  /\ PdfIdle
  /\ housemaids \in 0 .. MaxHousemaids
  /\ selectedFormat = "pdf"
  /\ selectedType = "individual"
  /\ selectedHousemaid = 0
  /\ isGenerating = FALSE
  /\ genPc = "idle"
  /\ run = NoRun
  /\ output = "none"
  /\ outputRows = 0
  /\ alertMsg = ""
  /\ FormIdle

SetSelectedType(t) ==
  /\ selectedType' = t
  /\ UNCHANGED <<housemaids, selectedFormat, selectedHousemaid, isGenerating, genPc, run,
                 output, outputRows, alertMsg, calcVars, status, helperVars, pdfVars, formVars>>

\* the PDF and Word radio buttons are disabled while the type is summary
SetSelectedFormat(f) ==
  /\ f \in {"pdf", "word"} => selectedType # "summary"
  /\ selectedFormat' = f
  /\ UNCHANGED <<housemaids, selectedType, selectedHousemaid, isGenerating, genPc, run,
                 output, outputRows, alertMsg, calcVars, status, helperVars, pdfVars, formVars>>

\* the select is shown while the type is individual; 0 is 'Choose a housemaid...'
SetSelectedHousemaid(h) ==
  /\ selectedType = "individual"
  /\ selectedHousemaid' = h
  /\ UNCHANGED <<housemaids, selectedFormat, selectedType, isGenerating, genPc, run,
                 output, outputRows, alertMsg, calcVars, status, helperVars, pdfVars, formVars>>

\* handleGenerate up to setIsGenerating(true)
HandleGenerate ==
  /\ genPc = "idle"
  /\ output' = "none"
  /\ outputRows' = 0
  /\ IF selectedType = "individual" /\ selectedHousemaid = 0
     THEN /\ alertMsg' = "Please select a housemaid for individual report."
          /\ UNCHANGED <<isGenerating, genPc, run>>
     ELSE /\ alertMsg' = ""
          /\ isGenerating' = TRUE
          /\ run' = [format |-> selectedFormat, type |-> selectedType,
                     housemaid |-> selectedHousemaid]
          /\ genPc' = "try"
  /\ UNCHANGED <<housemaids, selectedFormat, selectedType, selectedHousemaid,
                 calcVars, status, helperVars, pdfVars, formVars>>

\* what the try block writes when nothing throws
Generated(r) ==
  IF r.format = "excel"
  THEN IF r.type = "individual" /\ r.housemaid # 0
       THEN [file |-> "Individual Report.xlsx", rows |-> 0]
       ELSE [file |-> "Summary Report.xlsx", rows |-> housemaids]
  ELSE IF r.type = "individual" /\ r.housemaid # 0
       THEN IF r.format = "pdf" THEN [file |-> "Professional_Report.pdf", rows |-> 0]
            ELSE IF r.format = "word" THEN [file |-> "Report.docx", rows |-> 0]
            ELSE [file |-> "none", rows |-> 0]
       ELSE [file |-> "none", rows |-> 0]

\* the try block: it runs to its end, or a generator throws and control
\* passes to the catch block
GenerateTry ==
  /\ genPc = "try"
  /\ \E throws \in BOOLEAN :
        IF throws
        THEN /\ genPc' = "catch"
             /\ UNCHANGED <<output, outputRows>>
        ELSE /\ output' = Generated(run).file
             /\ outputRows' = Generated(run).rows
             /\ genPc' = "finally"
  /\ UNCHANGED <<housemaids, selectedFormat, selectedType, selectedHousemaid, isGenerating,
                 run, alertMsg, calcVars, status, helperVars, pdfVars, formVars>>

\* catch: console.error and the error alert; nothing is thrown again
GenerateCatch ==
  /\ genPc = "catch"
  /\ alertMsg' = "Error generating report. Please try again."
  /\ genPc' = "finally"
  /\ UNCHANGED <<housemaids, selectedFormat, selectedType, selectedHousemaid, isGenerating,
                 run, output, outputRows, calcVars, status, helperVars, pdfVars, formVars>>

\* finally without setIsGenerating(false)
GenerateFinallyMutant ==
  /\ genPc = "finally"
  /\ genPc' = "idle"
  /\ UNCHANGED <<housemaids, selectedFormat, selectedType, selectedHousemaid, run, isGenerating,
                 output, outputRows, alertMsg, calcVars, status, helperVars, pdfVars, formVars>>

\* finally: setIsGenerating(false)
GenerateFinally ==
  /\ genPc = "finally"
  /\ isGenerating' = FALSE
  /\ genPc' = "idle"
  /\ UNCHANGED <<housemaids, selectedFormat, selectedType, selectedHousemaid, run,
                 output, outputRows, alertMsg, calcVars, status, helperVars, pdfVars, formVars>>

GenNext ==
  \/ \E t \in ReportTypes : SetSelectedType(t)
  \/ \E f \in ReportFormats : SetSelectedFormat(f)
  \/ \E h \in 0 .. housemaids : SetSelectedHousemaid(h)
  \/ HandleGenerate
  \/ GenerateTry
  \/ GenerateCatch
  \/ GenerateFinally

SpecGen == GenInit /\ [][GenNext]_vars

\* an async function that was started runs on: the continuation after each
\* await is scheduled by the event loop
SpecGenFair ==
  /\ SpecGen
  /\ WF_vars(GenerateTry)
  /\ WF_vars(GenerateCatch)
  /\ WF_vars(GenerateFinally)

\* ------------------------------------------------------ HousemaidForm
IsLeapYear(y) == (y % 4 = 0 /\ y % 100 # 0) \/ y % 400 = 0

DaysInMonth(y, m) ==
  IF m = 2 THEN (IF IsLeapYear(y) THEN 29 ELSE 28)
  ELSE IF m \in {4, 6, 9, 11} THEN 30 ELSE 31

NextDay(dt) ==
  IF dt.d < DaysInMonth(dt.y, dt.m) THEN Ymd(dt.y, dt.m, dt.d + 1)
  ELSE IF dt.m < 12 THEN Ymd(dt.y, dt.m + 1, 1)
  ELSE Ymd(dt.y + 1, 1, 1)

PrevDay(dt) ==
  IF dt.d > 1 THEN Ymd(dt.y, dt.m, dt.d - 1)
  ELSE IF dt.m > 1 THEN Ymd(dt.y, dt.m - 1, DaysInMonth(dt.y, dt.m - 1))
  ELSE Ymd(dt.y - 1, 12, 31)

\* new Date('yyyy-mm-dd') is UTC midnight: its calendar fields in the host zone
NewDateLocal(dt) == IF tz < 0 THEN PrevDay(dt) ELSE dt

\* Date.prototype.setFullYear on the host-zone fields: a day the month lacks
\* rolls over into the next month
SetFullYear(local, year) ==
  IF local.d > DaysInMonth(year, local.m)
  THEN Ymd(year, local.m + 1, local.d - DaysInMonth(year, local.m))
  ELSE Ymd(year, local.m, local.d)

\* toISOString().split('T')[0]: the UTC calendar date of the host-zone fields
ToISODate(local) == IF tz < 0 THEN NextDay(local) ELSE local

\* the end date handleInputChange computes
AutoEndDate(start, contractYears) ==
  ToISODate(SetFullYear(NewDateLocal(start), NewDateLocal(start).y + contractYears))

\* the inputs that call handleInputChange
Fields ==
  {<<"personalInfo", "name">>, <<"employment", "startDate">>,
   <<"employment", "contractPeriodYears">>, <<"employment", "endDate">>}

\* what the user can enter in each of them
Values(section, field) ==
  IF field = "name" THEN {"", "Bea"}
  ELSE IF field = "startDate" THEN {EmptyDate, Ymd(2024, 2, 29), Ymd(2024, 3, 1)}
  ELSE IF field = "contractPeriodYears" THEN {1, 4}
  ELSE {Ymd(2030, 1, 1)}

\* generateHousemaidNumberIfEligible is imported from utils/localStorage
GeneratedNumbers == {"", "HM-002"}

FormInit ==
  /\ now = FirstNow
  /\ tz \in TimeZones
  /\ startDate = NoString
  /\ effectiveDate = NoString
  /\ calls = 0
  /\ result = NoResult
  /\ calledAt = -1
  /\ prev = NoResult
  /\ prevAt = -1
  /\ display = Undefined
  /\ status = "probationary"
  /\ HelpersIdle
  /\ PdfIdle
  /\ GenIdle
  /\ isReadOnly \in BOOLEAN
  /\ housemaid \in {NoHousemaid, ExistingHousemaid}
  /\ formData = housemaid.data
  /\ rendered = formData
  /\ saved = NotSaved
  /\ events = 0
  /\ autoEnd = FALSE

\* a handler is called while the form is open
Handling ==
  /\ events < MaxEvents
  /\ saved = NotSaved
  /\ events' = events + 1

FormFrame == UNCHANGED <<isReadOnly, housemaid, rendered, calcVars, status, helperVars,
                         pdfVars, genVars>>

\* React renders the component again; the handlers now close over formData
Render ==
  /\ rendered # formData
  /\ rendered' = formData
  /\ UNCHANGED <<isReadOnly, housemaid, formData, saved, events, autoEnd, calcVars, status,
                 helperVars, pdfVars, genVars>>

\* x || '' for a string or undefined x
OrEmpty(x) == IF x = "undefined" THEN "" ELSE x

\* the auto-generation step without its !housemaid test
WithNumberMutant(fd, section, field, generate, number) ==
  IF section = "personalInfo" /\ field = "name" /\ generate
  THEN [fd EXCEPT !.housemaidNumber = number]
  ELSE fd

\* the housemaid number after the auto-generation step
WithNumber(fd, section, field, generate, number) ==
  IF section = "personalInfo" /\ field = "name" /\ housemaid = NoHousemaid /\ generate
  THEN [fd EXCEPT !.housemaidNumber = number]
  ELSE fd

\* the end date after the auto-calculation step
WithEndDate(fd, section, field, value) ==
  IF section = "employment" /\ field \in {"startDate", "contractPeriodYears"}
  THEN LET start == IF field = "startDate" THEN value ELSE rendered.employment.startDate
           contractYears == IF field = "contractPeriodYears" THEN value
                            ELSE rendered.employment.contractPeriodYears
       IN  IF start # EmptyDate /\ contractYears # 0
           THEN [fd EXCEPT !.employment.endDate = AutoEndDate(start, contractYears)]
           ELSE fd
  ELSE fd

handleInputChange(section, field, value) ==
  /\ Handling
  /\ IF isReadOnly
     THEN UNCHANGED <<formData, autoEnd>>
     ELSE /\ \E generate \in BOOLEAN, number \in GeneratedNumbers :
               formData' = WithEndDate(WithNumber([formData EXCEPT ![section][field] = value],
                                                  section, field, generate, number),
                                       section, field, value)
          /\ autoEnd' = IF field \in {"startDate", "contractPeriodYears"} THEN TRUE
                        ELSE IF field = "endDate" THEN FALSE
                        ELSE autoEnd
  /\ UNCHANGED saved
  /\ FormFrame

\* the housemaid number input
handleDirectChange(field, value) ==
  /\ Handling
  /\ IF isReadOnly
     THEN UNCHANGED formData
     ELSE formData' = [formData EXCEPT ![field] = value]
  /\ UNCHANGED <<saved, autoEnd>>
  /\ FormFrame

handlePhotoUpload(photoData) ==
  /\ Handling
  /\ IF isReadOnly
     THEN UNCHANGED formData
     ELSE formData' = [formData EXCEPT !.profilePhoto = [file |-> photoData]]
  /\ UNCHANGED <<saved, autoEnd>>
  /\ FormFrame

handlePhotoRemove ==
  /\ Handling
  /\ IF isReadOnly
     THEN UNCHANGED formData
     ELSE formData' = [formData EXCEPT !.profilePhoto = [file |-> NoFile]]
  /\ UNCHANGED <<saved, autoEnd>>
  /\ FormFrame

handleCVUpload(cvData) ==
  /\ Handling
  /\ IF isReadOnly
     THEN UNCHANGED formData
     ELSE formData' = [formData EXCEPT !.cv = [file |-> cvData]]
  /\ UNCHANGED <<saved, autoEnd>>
  /\ FormFrame

handleCVRemove ==
  /\ Handling
  /\ IF isReadOnly
     THEN UNCHANGED formData
     ELSE formData' = [formData EXCEPT !.cv = [file |-> NoFile]]
  /\ UNCHANGED <<saved, autoEnd>>
  /\ FormFrame

handlePOLOUpload(clearanceData) ==
  /\ Handling
  /\ IF isReadOnly
     THEN UNCHANGED formData
     ELSE formData' = [formData EXCEPT !.poloClearance.file = clearanceData]
  /\ UNCHANGED <<saved, autoEnd>>
  /\ FormFrame

\* handlePOLORemove without its isReadOnly return
handlePOLORemoveMutant ==
  /\ Handling
  /\ formData' = [formData EXCEPT !.poloClearance =
                    [file |-> NoFile, completionDate |-> formData.poloClearance.completionDate]]
  /\ UNCHANGED <<saved, autoEnd>>
  /\ FormFrame

handlePOLORemove ==
  /\ Handling
  /\ IF isReadOnly
     THEN UNCHANGED formData
     ELSE formData' = [formData EXCEPT !.poloClearance =
                         [file |-> NoFile,
                          completionDate |-> formData.poloClearance.completionDate]]
  /\ UNCHANGED <<saved, autoEnd>>
  /\ FormFrame

handlePOLOCompletionDateChange(date) ==
  /\ Handling
  /\ IF isReadOnly
     THEN UNCHANGED formData
     ELSE formData' = [formData EXCEPT !.poloClearance.completionDate = date]
  /\ UNCHANGED <<saved, autoEnd>>
  /\ FormFrame

handleAirTicketUpload(ticketData) ==
  /\ Handling
  /\ IF isReadOnly
     THEN UNCHANGED formData
     ELSE formData' = [formData EXCEPT !.airTicket.file = ticketData]
  /\ UNCHANGED <<saved, autoEnd>>
  /\ FormFrame

\* handleAirTicketRemove resetting the whole section
handleAirTicketRemoveMutant ==
  /\ Handling
  /\ IF isReadOnly
     THEN UNCHANGED formData
     ELSE formData' = [formData EXCEPT !.airTicket =
                         [file |-> NoFile, ticketNumber |-> "", bookingReference |-> ""]]
  /\ UNCHANGED <<saved, autoEnd>>
  /\ FormFrame

handleAirTicketRemove ==
  /\ Handling
  /\ IF isReadOnly
     THEN UNCHANGED formData
     ELSE formData' = [formData EXCEPT !.airTicket =
                         [file |-> NoFile,
                          ticketNumber |-> OrEmpty(formData.airTicket.ticketNumber),
                          bookingReference |-> OrEmpty(formData.airTicket.bookingReference)]]
  /\ UNCHANGED <<saved, autoEnd>>
  /\ FormFrame

handleAirTicketNumberChange(ticketNumber) ==
  /\ Handling
  /\ IF isReadOnly
     THEN UNCHANGED formData
     ELSE formData' = [formData EXCEPT !.airTicket.ticketNumber = ticketNumber]
  /\ UNCHANGED <<saved, autoEnd>>
  /\ FormFrame

handleAirTicketReferenceChange(bookingReference) ==
  /\ Handling
  /\ IF isReadOnly
     THEN UNCHANGED formData
     ELSE formData' = [formData EXCEPT !.airTicket.bookingReference = bookingReference]
  /\ UNCHANGED <<saved, autoEnd>>
  /\ FormFrame

\* handleSubmit reads formData and housemaid from the closure of the last render
handleSubmit ==
  /\ Handling
  /\ IF isReadOnly
     THEN UNCHANGED saved
     ELSE saved' = [id |-> IF housemaid.id # "" THEN housemaid.id
                           ELSE "housemaid-" \o ToString(now),
                    createdAt |-> IF housemaid.createdAt # 0 THEN housemaid.createdAt ELSE now,
                    updatedAt |-> now,
                    data |-> [rendered EXCEPT
                                !.housemaidNumber = OrEmpty(rendered.housemaidNumber)]]
  /\ UNCHANGED <<formData, autoEnd>>
  /\ FormFrame

FormNext ==
  \/ Render
  \/ \E f \in Fields : \E value \in Values(f[1], f[2]) : handleInputChange(f[1], f[2], value)
  \/ \E value \in {"", "HM-777"} : handleDirectChange("housemaidNumber", value)
  \/ handlePhotoUpload("photo.jpg")
  \/ handlePhotoRemove
  \/ handleCVUpload("cv2.pdf")
  \/ handleCVRemove
  \/ handlePOLOUpload("polo2.pdf")
  \/ handlePOLORemove
  \/ \E date \in {EmptyDate, Ymd(2024, 1, 15)} : handlePOLOCompletionDateChange(date)
  \/ handleAirTicketUpload("ticket2.pdf")
  \/ handleAirTicketRemove
  \/ \E ticketNumber \in {"", "T-2"} : handleAirTicketNumberChange(ticketNumber)
  \/ \E bookingReference \in {"", "B-2"} : handleAirTicketReferenceChange(bookingReference)
  \/ handleSubmit

SpecForm == FormInit /\ [][FormNext]_vars

\* ------------------------------------------------- notions of the claims
ResignedOrTerminated == status \in {"resigned", "terminated"}

EffectiveDateUsed == ResignedOrTerminated /\ ~Falsy(effectiveDate)

\* the calendar date of the host at instant t, as a day number
LocalDay(t) == (t + tz) \div HoursPerDay

\* the reference instant precedes the start of employment
ReferencePrecedesStart ==
  /\ startDate.k = "iso"
  /\ IF EffectiveDateUsed
     THEN effectiveDate.k = "iso" /\ effectiveDate.day < startDate.day
     ELSE calledAt < startDate.day * HoursPerDay

\* whole days from the start date to instant t, not below 0
WholeDaysTo(t) ==
  LET d == (t - startDate.day * HoursPerDay) \div HoursPerDay
  IN  IF d < 0 THEN 0 ELSE d

\* ------------------------------------------------------------------ C1
\* C1: in every returned record daysUntilPermanent equals
\* max(0, 90 - daysWorked), daysWorked being the field of the same record.
C1_DaysUntilPermanent ==
  Called => result.daysUntilPermanent = MathMax(Num(0), Sub(Num(90), result.daysWorked))

\* ------------------------------------------------------------------ C2
\* C2: with a non-empty start date, status resigned or terminated and no
\* effective date, the record has no actualDaysWorked and daysWorked is the
\* day difference from the start date to the current time.
C2_NoEffectiveDate ==
  (Called /\ ~Falsy(startDate) /\ ResignedOrTerminated /\ Falsy(effectiveDate)) =>
     /\ result.actualDaysWorked = Undefined
     /\ startDate.k = "iso" => result.daysWorked = Num(WholeDaysTo(calledAt))

\* ------------------------------------------------------------------ C3
\* C3: the returned daysWorked is never negative, and it is 0 whenever the
\* reference date (now, or the effective date used) precedes the start date.
C3_NeverNegative ==
  Called =>
     /\ result.daysWorked.t \in {"number", "nan"}
     /\ result.daysWorked.v >= 0
     /\ ReferencePrecedesStart => result.daysWorked = Num(0)

C3_Witness ==
  /\ Called
  /\ ReferencePrecedesStart
  /\ status = "probationary"
  /\ result.daysWorked = Num(0)

\* ------------------------------------------------------------------ C4
\* C4: shouldBePermanent and isEligibleForPermanent are equal, and true
\* exactly when the returned daysWorked is at least 90.
C4_PermanentFlags ==
  Called =>
     /\ result.shouldBePermanent = result.isEligibleForPermanent
     /\ result.shouldBePermanent <=>
          (result.daysWorked.t = "number" /\ result.daysWorked.v >= 90)

C4_Witness ==
  /\ Called
  /\ result.daysWorked = Num(90)
  /\ result.shouldBePermanent
  /\ result.isEligibleForPermanent

\* ------------------------------------------------------------------ C5
\* C5: resigned or terminated with an effective date on or after the start
\* date: actualDaysWorked is present and equals daysWorked, both the
\* whole-day difference of the two dates (2024-01-01 to 2024-02-15: 45 days,
\* not permanent, 45 days until permanent).
C5_EffectiveDate ==
  (Called /\ ResignedOrTerminated /\ startDate.k = "iso" /\ effectiveDate.k = "iso"
     /\ effectiveDate.day >= startDate.day) =>
     /\ result.actualDaysWorked = Num(effectiveDate.day - startDate.day)
     /\ result.daysWorked = Num(effectiveDate.day - startDate.day)
     /\ (startDate.day = 0 /\ effectiveDate.day = 45) =>
          /\ ~result.shouldBePermanent
          /\ result.daysUntilPermanent = Num(45)

C5_Witness ==
  /\ Called
  /\ status = "terminated"
  /\ startDate = IsoDate(0)
  /\ effectiveDate = IsoDate(45)
  /\ result.daysWorked = Num(45)
  /\ result.actualDaysWorked = Num(45)

\* ------------------------------------------------------------------ C6
\* C6: with status probationary, permanent or not given the record never
\* contains actualDaysWorked, whatever the effective date.
C6_NoActualDays ==
  (Called /\ ~ResignedOrTerminated) => result.actualDaysWorked = Undefined

C6_Witness ==
  /\ Called
  /\ status = "permanent"
  /\ startDate.k = "iso"
  /\ effectiveDate.k = "iso"
  /\ result.actualDaysWorked = Undefined
  /\ result.daysWorked.t = "number"

\* ------------------------------------------------------------------ C7
\* C7: an empty or absent start date gives the zero-state record for every
\* status and every effective date.
C7_ZeroState ==
  (Called /\ startDate \in {EmptyString, NoString}) =>
     /\ result.daysWorked = Num(0)
     /\ result.shouldBePermanent = FALSE
     /\ result.daysUntilPermanent = Num(90)
     /\ result.isEligibleForPermanent = FALSE
     /\ result.isResignedOrTerminated = FALSE
     /\ result.actualDaysWorked = Undefined

C7_Witness ==
  /\ Called
  /\ startDate = EmptyString
  /\ status = "resigned"
  /\ effectiveDate.k = "iso"
  /\ result.daysUntilPermanent = Num(90)
  /\ ~result.isResignedOrTerminated

\* ------------------------------------------------------------------ C8
\* C8 as stated: in every returned record isResignedOrTerminated is true
\* if and only if the status argument is resigned or terminated.
C8_Original ==
  Called => (result.isResignedOrTerminated <=> ResignedOrTerminated)

\* C8 amended: in every record returned for a non-empty start date
\* isResignedOrTerminated is true if and only if the status argument is
\* resigned or terminated; for an empty or absent start date it is false.
C8_ResignedFlag ==
  Called =>
     IF startDate \in {EmptyString, NoString}
     THEN ~result.isResignedOrTerminated
     ELSE result.isResignedOrTerminated <=> ResignedOrTerminated

C8_Witness ==
  /\ Called
  /\ startDate.k = "iso"
  /\ status = "terminated"
  /\ result.isResignedOrTerminated

\* ------------------------------------------------------------------ C9
\* C9: status not resigned/terminated, valid start date not after now:
\* daysWorked is the number of calendar days from the start date to the
\* current date, whatever the time of day of the evaluation.
C9_CalendarDays ==
  (Called /\ ~ResignedOrTerminated /\ startDate.k = "iso"
     /\ startDate.day <= LocalDay(calledAt)) =>
     result.daysWorked = Num(LocalDay(calledAt) - startDate.day)

\* ----------------------------------------------------------------- C10
\* C10: resigned or terminated with an effective date supplied: two
\* evaluations at different wall-clock times return the same record.
C10_ClockIndependent ==
  (calls >= 2 /\ EffectiveDateUsed) => result = prev

C10_Witness ==
  /\ calls >= 2
  /\ prevAt < calledAt
  /\ LocalDay(prevAt) < LocalDay(calledAt)
  /\ status = "terminated"
  /\ startDate.k = "iso"
  /\ effectiveDate.k = "iso"
  /\ result = prev
  /\ result.daysWorked.v > 0

\* ----------------------------------------------------------------- C11
\* C11: with a status that is not resigned or terminated the effective
\* date is ignored: a call that differs only in effectiveDate, evaluated at
\* the same time, returns the same record.
C11_EffectiveDateIgnored ==
  (Called /\ ~ResignedOrTerminated) =>
     \A e \in EffectiveDates :
        calculateEmploymentStatus(startDate, status, e, calledAt) = result

C11_Witness ==
  /\ Called
  /\ status = "probationary"
  /\ startDate.k = "iso"
  /\ effectiveDate.k = "iso"
  /\ effectiveDate.day < startDate.day
  /\ result.daysWorked.v > 0
  /\ calculateEmploymentStatus(startDate, status, NoString, calledAt) = result

\* ----------------------------------------------------------------- C12
\* C12: a malformed start date (or a malformed effective date that is
\* used) gives daysWorked 0 and both permanent flags false.
C12_MalformedClamped ==
  (Called /\ (startDate = Malformed
               \/ (~Falsy(startDate) /\ EffectiveDateUsed /\ effectiveDate = Malformed))) =>
     /\ result.daysWorked = Num(0)
     /\ ~result.shouldBePermanent
     /\ ~result.isEligibleForPermanent

\* ----------------------------------------------------------------- C13
\* C13: getDisplayDaysWorked returns actualDaysWorked when present and
\* daysWorked otherwise; for the record of a resigned or terminated employee
\* without an effective date it returns the daysWorked computed against now.
C13_DisplayDays ==
  Called =>
     /\ display = (IF result.actualDaysWorked # Undefined
                   THEN result.actualDaysWorked ELSE result.daysWorked)
     /\ (ResignedOrTerminated /\ startDate.k = "iso" /\ Falsy(effectiveDate)) =>
          display = Num(WholeDaysTo(calledAt))

\* ----------------------------------------------------------------- C14
\* C14: getEmploymentStatusText follows the first-match precedence of the
\* table: the three terminal statuses give their own label whatever
\* daysWorked is; otherwise 90 days or more give 'Eligible for Permanent'
\* and fewer (60..89 included) give 'Probationary'.
C14_StatusText ==
  label # "" =>
     /\ status = "permanent" => label = "Permanent Employee"
     /\ status = "resigned" => label = "Resigned"
     /\ status = "terminated" => label = "Terminated"
     /\ (status = "probationary" /\ days >= 90) => label = "Eligible for Permanent"
     /\ (status = "probationary" /\ days < 90) => label = "Probationary"

C14_Witness ==
  /\ status = "resigned"
  /\ days >= 90
  /\ label = "Resigned"

\* ----------------------------------------------------------------- C15
\* the presentation category of the table
Category(st, d) ==
  CASE st = "permanent" -> "confirmed"
    [] st = "resigned" -> "neutral"
    [] st = "terminated" -> "adverse"
    [] st = "probationary" /\ d >= 90 -> "ready"
    [] st = "probationary" /\ d >= 60 /\ d < 90 -> "approaching"
    [] OTHER -> "early"

\* C15: getEmploymentStatusColor maps (status, daysWorked) to one of six
\* categories, and different categories have different results.
C15_ColorCategories ==
  color # "" =>
     \A st \in HelperStatuses, d \in {0, 59, 60, 89, 90, MaxDays} :
        Category(st, d) # Category(status, days) =>
           getEmploymentStatusColor(st, d) # color

\* ----------------------------------------------------------------- C16
\* "<n> <unit>", the unit in the singular exactly when n is 1
Units(n, unit) == ToString(n) \o " " \o unit \o (IF n = 1 THEN "" ELSE "s")

\* whole units, then the remaining days unless there are none
UnitsAndDays(n, unit, r) ==
  IF r = 0 THEN Units(n, unit) ELSE Units(n, unit) \o ", " \o Units(r, "day")

\* C16: formatDaysWorked returns '0 days', '1 day', '<n> days' for 2..29,
\* months of 30 days plus the remaining days for 30..364, years of 365 days
\* plus the remaining days from 365 on.
C16_Duration ==
  formatted # "" =>
     /\ formatted = (CASE days \in 0 .. 29 -> Units(days, "day")
                       [] days \in 30 .. 364 -> UnitsAndDays(days \div 30, "month", days % 30)
                       [] OTHER -> UnitsAndDays(days \div 365, "year", days % 365))
     /\ days = 0 => formatted = "0 days"
     /\ days = 1 => formatted = "1 day"
     /\ days = 90 => formatted = "3 months"
     /\ days = 365 => formatted = "1 year"
     /\ days = 400 => formatted = "1 year, 35 days"

C16_Witness ==
  /\ days = 400
  /\ formatted = "1 year, 35 days"

\* ----------------------------------------------------------------- C17
\* C17: an individual PDF report has at most 2 pages: the page number
\* passed to a page header or footer never exceeds the total of 2 printed
\* in 'Page X of 2'.
C17_TwoPages ==
  /\ headerPage <= TotalPages
  /\ footerPage <= TotalPages

\* ----------------------------------------------------------------- C18
\* a run of handleGenerate that passed the selection check has ended
RunEnded == genPc = "idle" /\ run # NoRun

\* C18: a run with report type summary writes the Excel summary workbook
\* with one row per housemaid, and no run that passed the selection check
\* ends with neither a file nor an error message.
C18_SummaryWritten ==
  RunEnded =>
     /\ (run.type = "summary" /\ alertMsg = "") =>
          (output = "Summary Report.xlsx" /\ outputRows = housemaids)
     /\ output # "none" \/ alertMsg # ""

\* the form has a start date and a contract period
DatesSet == formData.employment.startDate # EmptyDate /\ formData.employment.contractPeriodYears # 0

\* the calendar dates n years after date dt: the same month and day, and for
\* 29 February in a common year the last day of February or 1 March
YearsAfter(dt, n) ==
  IF dt.d > DaysInMonth(dt.y + n, dt.m)
  THEN {Ymd(dt.y + n, dt.m, DaysInMonth(dt.y + n, dt.m)), Ymd(dt.y + n, dt.m + 1, 1)}
  ELSE {Ymd(dt.y + n, dt.m, dt.d)}

\* C19: while the form is read-only no handler call changes formData and
\* none calls onSave
C19_ReadOnly == [][isReadOnly => (formData' = formData /\ saved' = saved)]_vars

C19_Witness == isReadOnly /\ events = MaxEvents /\ formData.poloClearance.file # NoFile

\* C20: once startDate or contractPeriodYears has been edited and both are
\* set, endDate is contractPeriodYears years after the latest startDate,
\* also when two edits were made before the form was rendered again
C20_EndDateFollows ==
  (autoEnd /\ DatesSet)
    => formData.employment.endDate
         \in YearsAfter(formData.employment.startDate, formData.employment.contractPeriodYears)

\* ----------------------------------------------------------------- C24
\* the next thing generatePDFReport draws is the header or a table row of a
\* section that follows a checkPageBreak
DrawsInSection ==
  /\ sec \in 2 .. 9
  /\ \/ pdfPc = "header"
     \/ pdfPc = "rows" /\ row <= Len(SectionRows[sec])

\* C24: for a record whose values are all short, the section header and
\* every table row of a section that follows a checkPageBreak are drawn at
\* a y position not beyond pageHeight - 40.
C24_AboveFooter ==
  (DrawsInSection /\ ~hasLong) => yPosition <= PageHeight - 40

\* ----------------------------------------------------------------- C21
\* onSave was called
Submitted == saved # NotSaved

EditsName == \E value \in Values("personalInfo", "name") :
               handleInputChange("personalInfo", "name", value)

EditsNumber == \E value \in {"", "HM-777"} : handleDirectChange("housemaidNumber", value)

\* C22: with an existing housemaid loaded no edit of personalInfo.name
\* changes housemaidNumber, and a step that changes it is a
\* handleDirectChange on housemaidNumber.
C22_NumberKept ==
  [][housemaid # NoHousemaid =>
       /\ EditsName => formData'.housemaidNumber = formData.housemaidNumber
       /\ formData'.housemaidNumber # formData.housemaidNumber => EditsNumber]_vars

C22_Witness ==
  /\ housemaid = ExistingHousemaid
  /\ formData.personalInfo.name = "Bea"
  /\ formData.housemaidNumber = "HM-001"

\* ----------------------------------------------------------------- C23
POLOFileStep == handlePOLORemove \/ handlePOLOUpload("polo2.pdf")

AirTicketFileStep == handleAirTicketRemove \/ handleAirTicketUpload("ticket2.pdf")

\* C23: handlePOLORemove and handlePOLOUpload change only the file of
\* poloClearance, handleAirTicketRemove and handleAirTicketUpload only the
\* file of airTicket; completionDate, ticketNumber, bookingReference and
\* every other section of formData stay as they were.
C23_OnlyFile ==
  [][/\ POLOFileStep =>
          [formData' EXCEPT !.poloClearance.file = formData.poloClearance.file] = formData
     /\ AirTicketFileStep =>
          [formData' EXCEPT !.airTicket.file = formData.airTicket.file] = formData]_vars

C23_Witness ==
  /\ formData.airTicket = [file |-> NoFile, ticketNumber |-> "T-1", bookingReference |-> "B-1"]
  /\ formData.poloClearance = [file |-> NoFile, completionDate |-> Ymd(2023, 4, 1)]
  /\ ~isReadOnly

\* ----------------------------------------------------------------- C25
\* handleGenerate is called with type individual and no housemaid selected
GenerateWithoutHousemaid ==
  HandleGenerate /\ selectedType = "individual" /\ selectedHousemaid = 0

\* C25: a run that sets isGenerating to true eventually sets it back to
\* false; a run that throws shows the error alert and ends like any other;
\* a call with type individual and no housemaid selected shows an alert,
\* generates nothing and leaves isGenerating false.
C25_Generating ==
  /\ isGenerating ~> ~isGenerating
  /\ (genPc = "catch") ~> (/\ genPc = "idle"
                           /\ ~isGenerating
                           /\ alertMsg = "Error generating report. Please try again."
                           /\ output = "none")
  /\ [][GenerateWithoutHousemaid =>
          /\ alertMsg' = "Please select a housemaid for individual report."
          /\ output' = "none"
          /\ ~isGenerating'
          /\ genPc' = "idle"]_vars

C25_Witness ==
  /\ genPc = "idle"
  /\ run # NoRun
  /\ ~isGenerating
  /\ alertMsg = "Error generating report. Please try again."

====
